---- MODULE Spec2Model ----
(***************************************************************************)
(* A model of the yaptools utility library:                                *)
(*   - pool_transform and its worker pool   (src/yaptools/_utils.py)       *)
(*   - onetimemethod                        (src/yaptools/_utils.py)       *)
(*   - lazyproperty                         (src/yaptools/_utils.py)       *)
(*   - alphanum_sort / _alphanum_key        (src/yaptools/_utils.py)       *)
(*   - Logger and LoggedObject              (src/yaptools/logger/_logger.py)*)
(* Each utility is independent of the others, so each has its own          *)
(* specification over its own variables; the variables of the other        *)
(* utilities stay at their initial values.                                 *)
(***************************************************************************)
EXTENDS Integers, Sequences, FiniteSets, TLC

VARIABLES
    \* ---- pool_transform ----
    args,       \* the arguments of the call of pool_transform
    pc,         \* "called" | "mapping" | "done": position of the caller
    chunks,     \* the chunks handed to pool.map, in dispatch order
    inqueue,    \* task indices waiting for a worker (the pool's task queue)
    workers,    \* the pool's worker processes: [st, task]
    outqueue,   \* results put by the workers, not yet handled: [i, res]
    mapres,     \* the MapResult of pool.map: [value, success, exc, number_left, event]
    finished,   \* chunk indices in the order their computation completed or failed
    spawned,    \* number of worker processes started by the call
    outcome,    \* what the caller of pool_transform receives
    \* ---- onetimemethod ----
    heap,       \* address -> the instance living there (0: free memory)
    created,    \* number of instances created so far
    has_run,    \* the decorator's dict, keyed by id(self): "absent", "False", "True"
    ncalls,     \* instance -> number of calls of the wrapped method made on it
    nruns,      \* instance -> number of executions of the method body
    firstcall,  \* instance -> how the first call made on it ended ("none": no call)
    lastcall,   \* the last call of the wrapped method: [inst, prior, result]
    \* ---- lazyproperty ----
    lz_x,       \* instance -> the underlying state the method reads
    lz_dict,    \* instance -> the entry of instance.__dict__ under the name
    lz_fresh,   \* instance -> no read since creation or since the last deletion
    lz_evals,   \* instance -> the value computed at the last evaluation
    lz_last,    \* the last operation on the attribute
    \* ---- alphanum_sort ----
    string_list, \* the argument of alphanum_sort
    sorted,     \* how the call ended: [status, list]
    \* ---- Logger and LoggedObject ----
    obj,        \* a LoggedObject: its attribute x and its logger
    statedict,  \* what __getstate__ returned for obj
    restored,   \* the object __setstate__ was called on with statedict
    lastlog     \* the last call of obj.logger.log: [level, msg, calls, raised]

poolVars == <<args, pc, chunks, inqueue, workers, outqueue, mapres, finished,
              spawned, outcome>>
onceVars == <<heap, created, has_run, ncalls, nruns, firstcall, lastcall>>
lazyVars == <<lz_x, lz_dict, lz_fresh, lz_evals, lz_last>>

sortVars == <<string_list, sorted>>

loggerVars == <<obj, statedict, restored, lastlog>>

vars == <<poolVars, onceVars, lazyVars, sortVars, loggerVars>>

notPool == <<onceVars, lazyVars, sortVars, loggerVars>>
notOnce == <<poolVars, lazyVars, sortVars, loggerVars>>
notLazy == <<poolVars, onceVars, sortVars, loggerVars>>
notSort == <<poolVars, onceVars, lazyVars, loggerVars>>
notLogger == <<poolVars, onceVars, lazyVars, sortVars>>

(***************************************************************************)
(* Bounds of the model.                                                    *)
(***************************************************************************)
MaxLen == 4         \* longest table
MaxPool == 3        \* largest requested pool_size
NumAddr == 2        \* memory addresses an instance can live at
MaxObjects == 3     \* instances created in a run
MaxCalls == 2       \* calls of the wrapped method per instance
NumLazy == 2        \* instances owning the lazy attribute
MaxX == 2           \* largest value of the underlying state
MaxStrLen == 2      \* longest string given to alphanum_sort
MaxListLen == 3     \* longest list given to alphanum_sort

Min(a, b) == IF a < b THEN a ELSE b

(***************************************************************************)
(* pool_transform.  A table is the sequence of its rows; rows are numbered *)
(* so that their order is observable.  The transformation is an            *)
(* uninterpreted function: its result on a table or chunk is the term      *)
(* [kind, mode, rows], where mode tells function(rows) ("call") from       *)
(* rows.apply(function) ("apply"), and it raises on any input holding a    *)
(* row of args.bad.                                                        *)
(***************************************************************************)
Tables == {[i \in 1..n |-> i] : n \in 0..MaxLen}

NoResult == [kind |-> "none", mode |-> "none", rows |-> <<>>]

\* function(series_or_dataframe), for a function that raises on the rows of bad.
CallFunction(rows, bad) ==
    [kind |-> IF \E k \in 1..Len(rows) : rows[k] \in bad THEN "exc" ELSE "value",
     mode |-> "call", rows |-> rows]

\* series_or_dataframe.apply(func): one application of func per element.
WrapApply(rows, bad) ==
    [kind |-> IF \E k \in 1..Len(rows) : rows[k] \in bad THEN "exc" ELSE "value",
     mode |-> "apply", rows |-> rows]

\* The partial built at lines 177-180, applied to a table or a chunk.
\* (faulty variant: the apply_func flag is ignored)
FunctionIgnoresApply(a, rows) == CallFunction(rows, a.bad)
Function(a, rows) ==
    IF a.apply_func THEN WrapApply(rows, a.bad) ELSE CallFunction(rows, a.bad)

\* line 172: not aggregate is None or inspect.isfunction(aggregate)
AggregateRejected(aggregate) ==
    (~(aggregate = "None")) \/ (aggregate = "function")

\* The first failing validation of lines 163-176, or "" when all pass.
ValidationError(a) ==
    IF a.function # "function" THEN "TypeError"
    ELSE IF a.pool_size <= 0 THEN "ValueError"
    ELSE IF AggregateRejected(a.aggregate) THEN "TypeError"
    ELSE ""

\* pool_size = min(pool_size, len(series_or_dataframe))
EffectivePoolSize(a) == Min(a.pool_size, Len(a.table))

\* chunk_size = n_rows // pool_size + int(n_rows % pool_size > 0)
ChunkSize(n_rows, pool_size) ==
    (n_rows \div pool_size) + (IF n_rows % pool_size > 0 THEN 1 ELSE 0)

\* series_or_dataframe.iloc[i:j], 0-based, j excluded and clipped to the length.
\* (faulty variant: the slice loses its last row)
IlocShort(table, i, j) == SubSeq(table, i + 1, Min(j, Len(table)) - 1)
Iloc(table, i, j) == SubSeq(table, i + 1, Min(j, Len(table)))

\* range(0, n_rows, chunk_size), in increasing order.
RangeStarts(n_rows, chunk_size) ==
    LET count == (n_rows + chunk_size - 1) \div chunk_size
    IN  [k \in 1..count |-> (k - 1) * chunk_size]

\* the generator of lines 187-190, as the list pool.map makes of it.
MakeChunks(table, pool_size) ==
    LET n_rows == Len(table)
        chunk_size == ChunkSize(n_rows, pool_size)
        starts == RangeStarts(n_rows, chunk_size)
    IN  [k \in 1..Len(starts) |-> Iloc(table, starts[k], starts[k] + chunk_size)]

NoOutcome == [status |-> "none", exc |-> "", shape |-> "none", parts |-> <<>>]
Raise(exc, parts) == [status |-> "raise", exc |-> exc, shape |-> "none", parts |-> parts]
Return(shape, parts) == [status |-> "return", exc |-> "", shape |-> shape, parts |-> parts]

\* The outcome of evaluating an expression whose value is the term res.
OutcomeOf(res) ==
    IF res.kind = "exc" THEN Raise("FunctionError", <<res>>) ELSE Return("direct", <<res>>)

NoMapResult ==
    [value |-> <<>>, success |-> TRUE, exc |-> NoResult, number_left |-> 0,
     event |-> FALSE]

IdlePool ==
    /\ args = [table |-> <<>>, bad |-> {}, function |-> "function", pool_size |-> 1,
               apply_func |-> FALSE, aggregate |-> "None"]
    /\ pc = "idle"
    /\ chunks = <<>>
    /\ inqueue = <<>>
    /\ workers = <<>>
    /\ outqueue = <<>>
    /\ mapres = NoMapResult
    /\ finished = <<>>
    /\ spawned = 0
    /\ outcome = NoOutcome

CallPool ==
    /\ args \in [table : Tables,
                 bad : SUBSET (1..MaxLen),
                 function : {"function", "other"},
                 pool_size : 0..MaxPool,
                 apply_func : BOOLEAN,
                 aggregate : {"None", "function", "other"}]
    /\ args.bad \subseteq 1..Len(args.table)
    /\ pc = "called"
    /\ chunks = <<>>
    /\ inqueue = <<>>
    /\ workers = <<>>
    /\ outqueue = <<>>
    /\ mapres = NoMapResult
    /\ finished = <<>>
    /\ spawned = 0
    /\ outcome = NoOutcome

\* lines 163-176: a malformed argument raises before anything else happens.
RaiseInvalid ==
    /\ pc = "called"
    /\ ValidationError(args) # ""
    /\ pc' = "done"
    /\ outcome' = Raise(ValidationError(args), <<>>)
    /\ UNCHANGED <<args, chunks, inqueue, workers, outqueue, mapres, finished, spawned>>
    /\ UNCHANGED notPool

\* lines 177-183: with fewer than 2 effective workers, run in the caller.
RunDirect ==
    /\ pc = "called"
    /\ ValidationError(args) = ""
    /\ EffectivePoolSize(args) < 2
    /\ pc' = "done"
    /\ outcome' = OutcomeOf(Function(args, args.table))
    /\ UNCHANGED <<args, chunks, inqueue, workers, outqueue, mapres, finished, spawned>>
    /\ UNCHANGED notPool

\* lines 184-191: create the pool, cut the chunks, submit one task per chunk
\* (pool.map's own chunksize is 1, as there are at most pool_size chunks).
Dispatch ==
    /\ pc = "called"
    /\ ValidationError(args) = ""
    /\ EffectivePoolSize(args) >= 2
    /\ LET pool_size == EffectivePoolSize(args)
           cs == MakeChunks(args.table, pool_size)
       IN  /\ workers' = [w \in 1..pool_size |-> [st |-> "idle", task |-> 0]]
           /\ spawned' = pool_size
           /\ chunks' = cs
           /\ inqueue' = [k \in 1..Len(cs) |-> k]
           /\ mapres' = [value |-> [k \in 1..Len(cs) |-> NoResult],
                         success |-> TRUE, exc |-> NoResult,
                         number_left |-> Len(cs), event |-> Len(cs) = 0]
    /\ pc' = "mapping"
    /\ UNCHANGED <<args, outqueue, finished, outcome>>
    /\ UNCHANGED notPool

\* a worker process takes the next task of the queue.
WorkerGet(w) ==
    /\ pc = "mapping"
    /\ workers[w].st = "idle"
    /\ inqueue # <<>>
    /\ workers' = [workers EXCEPT ![w] = [st |-> "busy", task |-> Head(inqueue)]]
    /\ inqueue' = Tail(inqueue)
    /\ UNCHANGED <<args, pc, chunks, outqueue, mapres, finished, spawned, outcome>>
    /\ UNCHANGED notPool

\* a worker process runs the function on its chunk and puts (i, result).
WorkerRun(w) ==
    /\ pc = "mapping"
    /\ workers[w].st = "busy"
    /\ LET i == workers[w].task
       IN  /\ outqueue' = Append(outqueue, [i |-> i, res |-> Function(args, chunks[i])])
           /\ finished' = Append(finished, i)
    /\ workers' = [workers EXCEPT ![w] = [st |-> "idle", task |-> 0]]
    /\ UNCHANGED <<args, pc, chunks, inqueue, mapres, spawned, outcome>>
    /\ UNCHANGED notPool

\* MapResult._set(i, (success, result)) of the standard library, as pool.map
\* of line 191 uses it: a success is stored at its index; only the first
\* failure is kept; the result is ready once every task is accounted for.
\* (faulty variant: the result is ready at the first failure)
SetEventEarly(m, i, res) ==
    LET left == m.number_left - 1
    IN  IF res.kind = "value" /\ m.success
        THEN [m EXCEPT !.value[i] = res, !.number_left = left, !.event = (left = 0)]
        ELSE IF res.kind = "exc" /\ m.success
        THEN [m EXCEPT !.success = FALSE, !.exc = res, !.number_left = left,
                       !.event = TRUE]
        ELSE [m EXCEPT !.number_left = left, !.event = TRUE]
\* (faulty variant: a success is stored in order of arrival)
SetAppend(m, i, res) ==
    LET left == m.number_left - 1
        done == Len(m.value) - m.number_left
    IN  IF res.kind = "value" /\ m.success
        THEN [m EXCEPT !.value[done + 1] = res, !.number_left = left,
                       !.event = (left = 0)]
        ELSE IF res.kind = "exc" /\ m.success
        THEN [m EXCEPT !.success = FALSE, !.exc = res, !.number_left = left,
                       !.event = (left = 0)]
        ELSE [m EXCEPT !.number_left = left, !.event = (left = 0)]
Set(m, i, res) ==
    LET left == m.number_left - 1
    IN  IF res.kind = "value" /\ m.success
        THEN [m EXCEPT !.value[i] = res, !.number_left = left, !.event = (left = 0)]
        ELSE IF res.kind = "exc" /\ m.success
        THEN [m EXCEPT !.success = FALSE, !.exc = res, !.number_left = left,
                       !.event = (left = 0)]
        ELSE [m EXCEPT !.number_left = left, !.event = (left = 0)]

\* the pool's result handler takes the next result of the workers.
HandleResult ==
    /\ pc = "mapping"
    /\ outqueue # <<>>
    /\ mapres' = Set(mapres, Head(outqueue).i, Head(outqueue).res)
    /\ outqueue' = Tail(outqueue)
    /\ UNCHANGED <<args, pc, chunks, inqueue, workers, finished, spawned, outcome>>
    /\ UNCHANGED notPool

\* line 192: aggregate(results) if aggregate is not None else results
ReturnValue(a, results) ==
    IF a.aggregate # "None" THEN Return("agg", results) ELSE Return("list", results)

\* pool.map returns or raises once the result is ready; leaving the with
\* block terminates and joins every worker (line 184); then line 192.
Finish ==
    /\ pc = "mapping"
    /\ mapres.event
    /\ workers' = [w \in 1..Len(workers) |-> [st |-> "dead", task |-> workers[w].task]]
    /\ outcome' = IF mapres.success
                  THEN ReturnValue(args, mapres.value)
                  ELSE Raise("FunctionError", <<mapres.exc>>)
    /\ pc' = "done"
    /\ UNCHANGED <<args, chunks, inqueue, outqueue, mapres, finished, spawned>>
    /\ UNCHANGED notPool

NextPool ==
    \/ RaiseInvalid
    \/ RunDirect
    \/ Dispatch
    \/ \E w \in 1..Len(workers) : WorkerGet(w)
    \/ \E w \in 1..Len(workers) : WorkerRun(w)
    \/ HandleResult
    \/ Finish


(***************************************************************************)
(* Properties of pool_transform.                                           *)
(***************************************************************************)
CeilDiv(a, b) == (a + b - 1) \div b

RECURSIVE Concat(_)
Concat(ss) == IF ss = <<>> THEN <<>> ELSE Head(ss) \o Concat(Tail(ss))

Range(s) == {s[k] : k \in 1..Len(s)}

\* the effective worker count, and the i-th contiguous slice of the table in
\* row order when it is cut in slices of ceil(L / P) rows.
Effective == Min(args.pool_size, Len(args.table))
SliceLen == CeilDiv(Len(args.table), Effective)
Slice(i) == SubSeq(args.table, (i - 1) * SliceLen + 1, Min(i * SliceLen, Len(args.table)))
SliceCount == CeilDiv(Len(args.table), SliceLen)
Transformed(rows) ==
    [kind |-> IF Range(rows) \cap args.bad # {} THEN "exc" ELSE "value",
     mode |-> IF args.apply_func THEN "apply" ELSE "call",
     rows |-> rows]
WellTyped == args.function = "function" /\ args.pool_size >= 1

\* C1: a valid call with an aggregator function and an effective worker count
\* of at least 2 returns aggregate(results), results being the ordered list
\* of the per-chunk partial results.
C1_AggregatorApplied ==
    (/\ pc = "done"
     /\ WellTyped
     /\ args.aggregate = "function"
     /\ args.bad = {}
     /\ Effective >= 2)
    => outcome = Return("agg", [i \in 1..SliceCount |-> Transformed(Slice(i))])

\* C2 as written: with min(W, L) >= 2 the table is split into
\* ceil(L / min(W, L)) chunks, which are contiguous, non-empty, and
\* concatenate to the table.
C2_ChunkCountIsCeil ==
    (pc \in {"mapping", "done"} /\ spawned > 0)
    => /\ Len(chunks) = CeilDiv(Len(args.table), Effective)
       /\ \A k \in 1..Len(chunks) : chunks[k] # <<>>
       /\ Concat(chunks) = args.table

\* C2 amended: with min(W, L) >= 2 the table is split into chunks of
\* ceil(L / min(W, L)) rows (the last one possibly shorter), that is into
\* ceil(L / ceil(L / min(W, L))) chunks, at most min(W, L); the chunks are
\* contiguous, non-empty, do not overlap, their lengths sum to L and their
\* concatenation in dispatch order is the table.
C2_ChunksPartition ==
    (pc \in {"mapping", "done"} /\ spawned > 0)
    => /\ Effective >= 2
       /\ Len(chunks) = SliceCount
       /\ Len(chunks) <= Effective
       /\ \A k \in 1..Len(chunks) :
            /\ chunks[k] # <<>>
            /\ chunks[k] = Slice(k)
            /\ k < Len(chunks) => Len(chunks[k]) = SliceLen
            /\ \A j \in 1..Len(chunks) :
                 j # k => Range(chunks[j]) \cap Range(chunks[k]) = {}
       /\ Len(Concat(chunks)) = Len(args.table)
       /\ Concat(chunks) = args.table

\* C2 witness: a split whose last chunk is shorter than the others.
C2_Witness ==
    /\ pc = "mapping"
    /\ Len(chunks) >= 2
    /\ Len(chunks[Len(chunks)]) < Len(chunks[1])

\* C2 witness of the amended count: fewer chunks than workers.
C2_FewerChunksThanWorkers ==
    pc = "mapping" /\ Len(chunks) < Len(workers)

\* C3 as written: with an effective worker count below 2 the call returns
\* function(table) unwrapped, whatever the apply-mode flag.
C3_DirectIsFunctionOfTable ==
    (/\ pc = "done"
     /\ WellTyped
     /\ args.aggregate = "None"
     /\ args.bad = {}
     /\ Effective < 2)
    => /\ spawned = 0
       /\ outcome = Return("direct", <<[kind |-> "value", mode |-> "call",
                                        rows |-> args.table]>>)

\* C3 amended: with an effective worker count below 2 (and no aggregator)
\* no worker is spawned and the call gives, unwrapped, what the
\* transformation gives on the whole table: function(table) when the
\* apply-mode flag is false, table.apply(function) when it is true; an
\* exception of the transformation reaches the caller as it is.
C3_DirectCall ==
    (/\ pc = "done"
     /\ WellTyped
     /\ args.aggregate = "None"
     /\ Effective < 2)
    => /\ spawned = 0
       /\ workers = <<>>
       /\ chunks = <<>>
       /\ outcome.parts = <<Transformed(args.table)>>
       /\ outcome.shape = (IF args.bad = {} THEN "direct" ELSE "none")
       /\ outcome.status = (IF args.bad = {} THEN "return" ELSE "raise")

\* C3 witness: a one-row table with several workers requested, apply mode.
C3_Witness ==
    /\ pc = "done"
    /\ WellTyped
    /\ args.aggregate = "None"
    /\ args.pool_size >= 2
    /\ Len(args.table) = 1
    /\ args.apply_func
    /\ outcome.status = "return"

\* C9: with an effective worker count of at least 2 and no aggregator, in
\* every interleaving the returned list has one entry per chunk and entry i
\* is the transformation's result on the i-th contiguous slice.
C9_ResultsInChunkOrder ==
    (/\ pc = "done"
     /\ WellTyped
     /\ args.aggregate = "None"
     /\ args.bad = {}
     /\ Effective >= 2)
    => outcome = Return("list", [i \in 1..SliceCount |-> Transformed(Slice(i))])

\* C9 witness: a returned list whose chunks did not finish in chunk order.
C9_Witness ==
    /\ pc = "done"
    /\ outcome.status = "return"
    /\ outcome.shape = "list"
    /\ Len(finished) >= 3
    /\ finished[1] > finished[2]

\* C10: if the transformation raises in a worker, the call ends by raising
\* a worker's exception, only after every dispatched chunk completed or
\* failed; it returns no list, calls no aggregator, and no worker is alive.
C10_WorkerFailure ==
    (/\ pc = "done"
     /\ \E k \in 1..Len(finished) : Transformed(chunks[finished[k]]).kind = "exc")
    => /\ outcome.status = "raise"
       /\ outcome.shape = "none"
       /\ outcome.exc = "FunctionError"
       /\ \E i \in 1..Len(chunks) :
            /\ Transformed(chunks[i]).kind = "exc"
            /\ outcome.parts = <<Transformed(chunks[i])>>
       /\ Range(finished) = 1..Len(chunks)
       /\ inqueue = <<>> /\ outqueue = <<>>
       /\ \A w \in 1..Len(workers) : workers[w].st = "dead"

\* C10 witness: two chunks failed and the caller receives the exception of
\* the second chunk, which failed first.
C10_Witness ==
    /\ pc = "done"
    /\ outcome.status = "raise"
    /\ Len(chunks) >= 2
    /\ Transformed(chunks[1]).kind = "exc"
    /\ outcome.parts = <<Transformed(chunks[2])>>
    /\ Transformed(chunks[2]).kind = "exc"

(***************************************************************************)
(* onetimemethod.  has_run is the dict of the decorator's closure, shared  *)
(* by every instance and keyed by id(self), which is the address of the    *)
(* instance: an address is unique among the instances alive at one time,   *)
(* and is free to be given to a new instance once its owner is destroyed.  *)
(***************************************************************************)
Addrs == 1..NumAddr
Insts == 1..MaxObjects

NoCall == [inst |-> 0, prior |-> 0, result |-> "none"]

IdleOnce ==
    /\ heap = [a \in Addrs |-> 0]
    /\ created = 0
    /\ has_run = [a \in Addrs |-> "absent"]
    /\ ncalls = [i \in Insts |-> 0]
    /\ nruns = [i \in Insts |-> 0]
    /\ firstcall = [i \in Insts |-> "none"]
    /\ lastcall = NoCall

\* id(self): the address the instance lives at.
Id(a) == a

\* has_run.setdefault(key, False): the dict afterwards.
SetDefault(hr, key) == IF hr[key] = "absent" THEN [hr EXCEPT ![key] = "False"] ELSE hr

\* lines 206-215: the wrapped method, called on the instance at address a,
\* whose body raises or not: the dict afterwards and how the call ends.
\* (faulty variant: the instance is marked only once the body has returned)
WrappedMarksAfter(hr, a, bodyRaises) ==
    LET hr1 == SetDefault(hr, Id(a))
    IN  IF hr1[Id(a)] = "True"
        THEN [has_run |-> hr1, ran |-> FALSE, result |-> "RuntimeError"]
        ELSE [has_run |-> IF bodyRaises THEN hr1 ELSE [hr1 EXCEPT ![Id(a)] = "True"],
              ran |-> TRUE,
              result |-> IF bodyRaises THEN "MethodError" ELSE "returned"]
Wrapped(hr, a, bodyRaises) ==
    LET hr1 == SetDefault(hr, Id(a))
    IN  IF hr1[Id(a)] = "True"
        THEN [has_run |-> hr1, ran |-> FALSE, result |-> "RuntimeError"]
        ELSE [has_run |-> [hr1 EXCEPT ![Id(a)] = "True"], ran |-> TRUE,
              result |-> IF bodyRaises THEN "MethodError" ELSE "returned"]

\* an instance of the class is created, at any free address.
NewInstance(a) ==
    /\ heap[a] = 0
    /\ created < MaxObjects
    /\ created' = created + 1
    /\ heap' = [heap EXCEPT ![a] = created + 1]
    /\ UNCHANGED <<has_run, ncalls, nruns, firstcall, lastcall>>
    /\ UNCHANGED notOnce

\* the instance at address a is destroyed; its memory is free again.
DelInstance(a) ==
    /\ heap[a] # 0
    /\ heap' = [heap EXCEPT ![a] = 0]
    /\ UNCHANGED <<created, has_run, ncalls, nruns, firstcall, lastcall>>
    /\ UNCHANGED notOnce

\* the wrapped method is called on the instance at address a.
CallMethod(a, bodyRaises) ==
    /\ heap[a] # 0
    /\ ncalls[heap[a]] < MaxCalls
    /\ LET inst == heap[a]
           r == Wrapped(has_run, a, bodyRaises)
       IN  /\ has_run' = r.has_run
           /\ ncalls' = [ncalls EXCEPT ![inst] = @ + 1]
           /\ nruns' = [nruns EXCEPT ![inst] = IF r.ran THEN @ + 1 ELSE @]
           /\ firstcall' = [firstcall EXCEPT
                             ![inst] = IF ncalls[inst] = 0 THEN r.result ELSE @]
           /\ lastcall' = [inst |-> inst, prior |-> ncalls[inst], result |-> r.result]
    /\ UNCHANGED <<heap, created>>
    /\ UNCHANGED notOnce

NextOnce ==
    \/ \E a \in Addrs : NewInstance(a)
    \/ \E a \in Addrs : DelInstance(a)
    \/ \E a \in Addrs, bodyRaises \in BOOLEAN : CallMethod(a, bodyRaises)

\* C4: the first call on an instance succeeds, every later call on it raises
\* RuntimeError, and a call on an instance that has not called the method
\* yet is never refused, whatever other instances did before.
C4_OncePerInstance ==
    lastcall.inst # 0
    => /\ lastcall.prior = 0 => lastcall.result # "RuntimeError"
       /\ lastcall.prior > 0 => lastcall.result = "RuntimeError"

\* C11: the instance is marked as 'already run' before the method body
\* executes: when the call that ran the body raised, the instance is marked
\* all the same, every later call on it raises RuntimeError, and the body is
\* never executed a second time for an instance.
C11_MarkedBeforeBody ==
    /\ \A i \in Insts : nruns[i] <= 1
    /\ \A a \in Addrs :
         (heap[a] # 0 /\ firstcall[heap[a]] # "none") => has_run[Id(a)] = "True"
    /\ (lastcall.inst # 0 /\ lastcall.prior > 0) => lastcall.result = "RuntimeError"

\* C11 witness: the first call on an instance ran the body, which raised,
\* and a later call on that instance was refused.
C11_Witness ==
    /\ lastcall.inst # 0
    /\ lastcall.prior > 0
    /\ firstcall[lastcall.inst] = "MethodError"
    /\ nruns[lastcall.inst] = 1
    /\ lastcall.result = "RuntimeError"

(***************************************************************************)
(* lazyproperty.  The wrapped method returns the owner's underlying state  *)
(* x, as in the docstring's example.                                       *)
(***************************************************************************)
LzInsts == 1..NumLazy

NotCached == [has |-> FALSE, val |-> 0]
Cached(v) == [has |-> TRUE, val |-> v]
NoLazyOp == [op |-> "none", inst |-> 0, ran |-> FALSE, val |-> 0, fresh |-> FALSE,
             cached |-> FALSE, changed |-> FALSE, raised |-> FALSE]

IdleLazy ==
    /\ lz_x = [i \in LzInsts |-> 0]
    /\ lz_dict = [i \in LzInsts |-> NotCached]
    /\ lz_fresh = [i \in LzInsts |-> TRUE]
    /\ lz_evals = [i \in LzInsts |-> 0]
    /\ lz_last = NoLazyOp

OwnersLazy ==
    /\ lz_x \in [LzInsts -> 0..MaxX]
    /\ lz_dict = [i \in LzInsts |-> NotCached]
    /\ lz_fresh = [i \in LzInsts |-> TRUE]
    /\ lz_evals = [i \in LzInsts |-> 0]
    /\ lz_last = NoLazyOp

\* the decorated method of the docstring: return self.x
Method(x) == x

\* lines 133-137: the getter; the entry afterwards, the value returned and
\* whether the method ran.
\* (faulty variant: the value is never stored)
GetterNoCache(entry, x) == [entry |-> entry, val |-> Method(x), ran |-> TRUE]
Getter(entry, x) ==
    IF ~entry.has
    THEN [entry |-> Cached(Method(x)), val |-> Method(x), ran |-> TRUE]
    ELSE [entry |-> entry, val |-> entry.val, ran |-> FALSE]

\* lines 138-140: the deleter, instance.__dict__.pop(name, None).
Deleter(entry) == [entry |-> NotCached, raised |-> FALSE]

\* a read of the attribute of instance i.
ReadLazy(i) ==
    /\ LET r == Getter(lz_dict[i], lz_x[i])
       IN  /\ lz_dict' = [lz_dict EXCEPT ![i] = r.entry]
           /\ lz_evals' = [lz_evals EXCEPT ![i] = IF r.ran THEN r.val ELSE @]
           /\ lz_last' = [op |-> "read", inst |-> i, ran |-> r.ran, val |-> r.val,
                          fresh |-> lz_fresh[i], cached |-> lz_dict[i].has,
                          changed |-> FALSE, raised |-> FALSE]
    /\ lz_fresh' = [lz_fresh EXCEPT ![i] = FALSE]
    /\ UNCHANGED lz_x
    /\ UNCHANGED notLazy

\* the owner's underlying state changes.
SetX(i, v) ==
    /\ lz_x[i] # v
    /\ lz_x' = [lz_x EXCEPT ![i] = v]
    /\ lz_last' = [NoLazyOp EXCEPT !.op = "set", !.inst = i]
    /\ UNCHANGED <<lz_dict, lz_fresh, lz_evals>>
    /\ UNCHANGED notLazy

\* del instance.attribute
DeleteLazy(i) ==
    /\ LET r == Deleter(lz_dict[i])
       IN  /\ lz_dict' = [lz_dict EXCEPT ![i] = r.entry]
           /\ lz_last' = [op |-> "del", inst |-> i, ran |-> FALSE, val |-> 0,
                          fresh |-> lz_fresh[i], cached |-> lz_dict[i].has,
                          changed |-> (r.entry # lz_dict[i]), raised |-> r.raised]
    /\ lz_fresh' = [lz_fresh EXCEPT ![i] = TRUE]
    /\ UNCHANGED <<lz_x, lz_evals>>
    /\ UNCHANGED notLazy

NextLazy ==
    \/ \E i \in LzInsts : ReadLazy(i)
    \/ \E i \in LzInsts, v \in 0..MaxX : SetX(i, v)
    \/ \E i \in LzInsts : DeleteLazy(i)

C5_DeleteNotCached ==
    lz_last.op = "del" /\ ~lz_last.cached

(***************************************************************************)
(* alphanum_sort.  A string is the sequence of its characters.  A key is   *)
(* a sequence of items [t, n, s]: an integer n (t = "int") or a string s   *)
(* (t = "str").                                                            *)
(***************************************************************************)
Digits == {"0", "1", "2"}
Letters == {"a"}
Chars == Digits \cup Letters

SeqsUpTo(S, n) == UNION {[1..k -> S] : k \in 0..n}
Strings == SeqsUpTo(Chars, MaxStrLen)

\* the code point order of the characters.
Ord(c) == CASE c = "0" -> 48 [] c = "1" -> 49 [] c = "2" -> 50 [] c = "a" -> 97

DigitValue(c) == Ord(c) - 48

IsDigits(x) == x # <<>> /\ \A k \in 1..Len(x) : x[k] \in Digits

\* int(x) for a string of decimal digits.
RECURSIVE IntOf(_)
IntOf(x) == IF x = <<>> THEN 0 ELSE 10 * IntOf(SubSeq(x, 1, Len(x) - 1)) + DigitValue(x[Len(x)])

\* re.split('([0-9]+)', string): the text between the runs of digits and the
\* runs themselves, alternating, text first and last (possibly empty).
RECURSIVE SplitFrom(_, _)
SplitFrom(string, acc) ==
    IF string = <<>>
    THEN (IF Len(acc) % 2 = 0 THEN Append(acc, <<>>) ELSE acc)
    ELSE LET c == Head(string)
             n == Len(acc)
             inDigits == (n % 2 = 0)
         IN  IF (c \in Digits) = inDigits
             THEN SplitFrom(Tail(string), [acc EXCEPT ![n] = Append(@, c)])
             ELSE SplitFrom(Tail(string), Append(acc, <<c>>))

ReSplit(string) == SplitFrom(string, << <<>> >>)

IntItem(n) == [t |-> "int", n |-> n, s |-> <<>>]
StrItem(x) == [t |-> "str", n |-> 0, s |-> x]

\* lines 32-38: _alphanum_key; err is the exception raised, if any.
AlphanumKey(string) ==
    IF string = <<>> THEN [err |-> "IndexError", items |-> <<>>]
    ELSE LET parity == IF string[1] \in Digits THEN 1 ELSE 0
             parts == SubSeq(ReSplit(string), parity + 1, Len(ReSplit(string)))
             \* i is the 0-based index of enumerate
             toInt(i) == (i % 2 # parity)
         IN  IF \E i \in 0..(Len(parts) - 1) : toInt(i) /\ ~IsDigits(parts[i + 1])
             THEN [err |-> "ValueError", items |-> <<>>]
             ELSE [err |-> "",
                   items |-> [j \in 1..Len(parts) |->
                                IF toInt(j - 1) THEN IntItem(IntOf(parts[j]))
                                ELSE StrItem(parts[j])]]

\* x < y for two strings.
RECURSIVE StrLess(_, _)
StrLess(x, y) ==
    IF y = <<>> THEN FALSE
    ELSE IF x = <<>> THEN TRUE
    ELSE IF Head(x) # Head(y) THEN Ord(Head(x)) < Ord(Head(y))
    ELSE StrLess(Tail(x), Tail(y))

\* x < y for two items of a key: "lt", "ge", or "err" (TypeError: '<' not
\* supported between instances of 'int' and 'str').
ItemLess(x, y) ==
    IF x.t # y.t THEN "err"
    ELSE IF x.t = "int" THEN (IF x.n < y.n THEN "lt" ELSE "ge")
    ELSE (IF StrLess(x.s, y.s) THEN "lt" ELSE "ge")

\* k1 < k2 for two lists: the items at the first index where they differ
\* decide; without such an index the shorter list is the smaller.
RECURSIVE ListLess(_, _)
ListLess(k1, k2) ==
    IF k1 = <<>> \/ k2 = <<>> THEN (IF Len(k1) < Len(k2) THEN "lt" ELSE "ge")
    ELSE IF Head(k1) # Head(k2) THEN ItemLess(Head(k1), Head(k2))
    ELSE ListLess(Tail(k1), Tail(k2))

Lt(x, y) == ListLess(x.key, y.key)

\* list.sort on a short list: the run the list starts with (descending runs
\* are reversed), then a binary insertion of each remaining element.
RECURSIVE RunEnd(_, _, _)
RunEnd(a, i, desc) ==
    IF i > Len(a) THEN [run |-> i - 1, err |-> FALSE]
    ELSE LET c == Lt(a[i], a[i - 1])
         IN  IF c = "err" THEN [run |-> i - 1, err |-> TRUE]
             ELSE IF (c = "lt") = desc THEN RunEnd(a, i + 1, desc)
             ELSE [run |-> i - 1, err |-> FALSE]

Reverse(a) == [k \in 1..Len(a) |-> a[Len(a) + 1 - k]]

CountRun(a) ==
    IF Len(a) < 2 THEN [list |-> a, run |-> Len(a), err |-> FALSE]
    ELSE LET c == Lt(a[2], a[1])
         IN  IF c = "err" THEN [list |-> a, run |-> 1, err |-> TRUE]
             ELSE LET e == RunEnd(a, 3, c = "lt")
                  IN  [list |-> IF c = "lt" /\ ~e.err
                                THEN Reverse(SubSeq(a, 1, e.run))
                                     \o SubSeq(a, e.run + 1, Len(a))
                                ELSE a,
                       run |-> e.run, err |-> e.err]

\* the place of pivot among a[l+1..r], 0-based as in the C code.
RECURSIVE BinarySearch(_, _, _, _)
BinarySearch(a, pivot, l, r) ==
    IF l >= r THEN [pos |-> l, err |-> FALSE]
    ELSE LET p == l + ((r - l) \div 2)
             c == Lt(pivot, a[p + 1])
         IN  IF c = "err" THEN [pos |-> l, err |-> TRUE]
             ELSE IF c = "lt" THEN BinarySearch(a, pivot, l, p)
             ELSE BinarySearch(a, pivot, p + 1, r)

RECURSIVE BinarySort(_, _)
BinarySort(a, start) ==
    IF start >= Len(a) THEN [list |-> a, err |-> FALSE]
    ELSE LET pivot == a[start + 1]
             b == BinarySearch(a, pivot, 0, start)
         IN  IF b.err THEN [list |-> a, err |-> TRUE]
             ELSE BinarySort(SubSeq(a, 1, b.pos) \o <<pivot>>
                             \o SubSeq(a, b.pos + 1, start)
                             \o SubSeq(a, start + 2, Len(a)), start + 1)

\* line 29: sorted(string_list, key=_alphanum_key)
Sorted(list) ==
    LET keys == [k \in 1..Len(list) |-> AlphanumKey(list[k])]
        failing == {k \in 1..Len(list) : keys[k].err # ""}
    IN  IF failing # {}
        THEN [status |-> keys[CHOOSE k \in failing : \A j \in failing : k <= j].err,
              list |-> <<>>]
        ELSE LET a == [k \in 1..Len(list) |-> [key |-> keys[k].items, val |-> list[k]]]
                 r == CountRun(a)
                 b == BinarySort(r.list, r.run)
             IN  IF r.err \/ b.err THEN [status |-> "TypeError", list |-> <<>>]
                 ELSE [status |-> "ok", list |-> [k \in 1..Len(list) |-> b.list[k].val]]

NotSorted == [status |-> "none", list |-> <<>>]

IdleSort ==
    /\ string_list = <<>>
    /\ sorted = NotSorted

CallSort ==
    /\ string_list \in SeqsUpTo(Strings, MaxListLen)
    /\ sorted = NotSorted

\* lines 17-29: alphanum_sort on a list of strings.
AlphanumSort ==
    /\ sorted.status = "none"
    /\ sorted' = Sorted(string_list)
    /\ UNCHANGED string_list
    /\ UNCHANGED notSort

NextSort == AlphanumSort

\* the order of the keys the claim states: integers as integers, text as
\* strings, a strict prefix first.
RECURSIVE KeyLeq(_, _)
KeyLeq(k1, k2) ==
    IF k1 = <<>> THEN TRUE
    ELSE IF k2 = <<>> THEN FALSE
    ELSE IF Head(k1) = Head(k2) THEN KeyLeq(Tail(k1), Tail(k2))
    ELSE /\ Head(k1).t = Head(k2).t
         /\ IF Head(k1).t = "int" THEN Head(k1).n < Head(k2).n
            ELSE StrLess(Head(k1).s, Head(k2).s)

Occurrences(list, x) == Cardinality({k \in 1..Len(list) : list[k] = x})

\* C6: for every list of (non-empty) strings of digits and letters,
\* alphanum_sort returns without error a permutation of the list in which
\* the key of each element is <= the key of the next one.
C6_SortsEveryList ==
    (/\ sorted.status # "none"
     /\ \A k \in 1..Len(string_list) : string_list[k] # <<>>)
    => /\ sorted.status = "ok"
       /\ Len(sorted.list) = Len(string_list)
       /\ \A k \in 1..Len(string_list) :
            Occurrences(sorted.list, string_list[k])
              = Occurrences(string_list, string_list[k])
       /\ \A k \in 1..(Len(sorted.list) - 1) :
            KeyLeq(AlphanumKey(sorted.list[k]).items, AlphanumKey(sorted.list[k + 1]).items)

\* what holds of the code: the same, for lists whose strings all start with
\* a digit or all start with a letter; any other list raises TypeError.
C6_SortsUniformLists ==
    (/\ sorted.status # "none"
     /\ \A k \in 1..Len(string_list) : string_list[k] # <<>>)
    => IF \E j, k \in 1..Len(string_list) :
            (string_list[j][1] \in Digits) # (string_list[k][1] \in Digits)
       THEN sorted.status = "TypeError"
       ELSE /\ sorted.status = "ok"
            /\ Len(sorted.list) = Len(string_list)
            /\ \A k \in 1..Len(string_list) :
                 Occurrences(sorted.list, string_list[k])
                   = Occurrences(string_list, string_list[k])
            /\ \A k \in 1..(Len(sorted.list) - 1) :
                 KeyLeq(AlphanumKey(sorted.list[k]).items,
                        AlphanumKey(sorted.list[k + 1]).items)

(***************************************************************************)
(* Logger and LoggedObject.  A Python value is [t, s, n, l]: its type t    *)
(* and, by type, a string s, an integer n or a list l (of handler kinds,   *)
(* each standing for the dict configuring one handler).                    *)
(***************************************************************************)
TNone == [t |-> "NoneType", s |-> "", n |-> 0, l |-> <<>>]
TStr(x) == [t |-> "str", s |-> x, n |-> 0, l |-> <<>>]
TInt(k) == [t |-> "int", s |-> "", n |-> k, l |-> <<>>]
TFloat(k) == [t |-> "float", s |-> "", n |-> k, l |-> <<>>]
TList(x) == [t |-> "list", s |-> "", n |-> 0, l |-> x]

WARNING == 30

\* lines 13-18: LOGGING_LEVELS; with line 57: _levels of a logger.
LoggingLevels(default) ==
    [debug |-> 10, info |-> 20, warning |-> WARNING, warn |-> WARNING, error |-> 40,
     fatal |-> 50, critical |-> 50, default |-> default]

\* the file system: the working directory, and the paths that are files.
RegularFiles == {"/cwd/notes"}
AbsPath(folder) ==
    CASE folder = "." -> "/cwd"
      [] folder = "logs" -> "/cwd/logs"
      [] folder = "notes" -> "/cwd/notes"
      [] OTHER -> folder

HandlerKinds == {"stream", "file", "queue"}

NoLogger ==
    [err |-> "none", name |-> TNone, folder |-> "", level |-> 0,
     handlers_config |-> <<>>, default |-> 0, handlers |-> <<>>]
FailedLogger(err) == [NoLogger EXCEPT !.err = err]

\* lines 24-59: Logger.__init__(name, folder, level, config), on values; err
\* is the exception raised, "" when the logger is built.
LoggerInit(name, folder, level, config) ==
    IF name.t \notin {"str", "NoneType"} THEN FailedLogger("TypeError")
    ELSE IF level.t # "int" THEN FailedLogger("TypeError")
    ELSE IF folder.t # "str" THEN FailedLogger("TypeError")
    ELSE IF AbsPath(folder.s) \in RegularFiles THEN FailedLogger("ValueError")
    ELSE IF config.t \notin {"list", "NoneType"} THEN FailedLogger("TypeError")
    ELSE LET lvl == IF level.n < 0 THEN 0 ELSE level.n
             cfg == IF config.t = "NoneType" THEN <<"stream">> ELSE config.l
         IN  IF \E k \in 1..Len(cfg) : cfg[k] \notin HandlerKinds
             THEN FailedLogger("ValueError")
             ELSE [err |-> "", name |-> name, folder |-> AbsPath(folder.s),
                   level |-> lvl, handlers_config |-> cfg, default |-> lvl,
                   handlers |-> cfg]

\* the arguments of Logger.__init__ and their defaults (line 24).
DefaultFolder == TStr(".")
DefaultLevel == TInt(1)
DefaultConfig == TNone

NoState ==
    [keys |-> {}, x |-> 0, logger_name |-> TNone, logger_folder |-> TNone,
     logger_config |-> TNone]
NotRestored == [status |-> "none", keys |-> {}, x |-> 0, logger |-> NoLogger]
NoLog == [level |-> TNone, msg |-> "", calls |-> <<>>, raised |-> FALSE]

IdleLogger ==
    /\ obj = [x |-> 0, logger |-> NoLogger]
    /\ statedict = NoState
    /\ restored = NotRestored
    /\ lastlog = NoLog

\* a LoggedObject with an attribute x whose logger was built by
\* Logger(name, folder, level, config).
NewLoggedObject ==
    /\ \E name \in {TNone, TStr("a")},
          folder \in {TStr("."), TStr("logs"), TStr("/var/log")},
          level \in {TInt(-1), TInt(0), TInt(1), TInt(20)},
          config \in {TNone, TList(<<"stream">>), TList(<<"file">>),
                      TList(<<"stream", "queue">>), TList(<<>>)},
          x \in {1, 2} :
        /\ LoggerInit(name, folder, level, config).err = ""
        /\ obj = [x |-> x, logger |-> LoggerInit(name, folder, level, config)]
    /\ statedict = NoState
    /\ restored = NotRestored
    /\ lastlog = NoLog

\* lines 154-161: __getstate__.
GetStateOf(o) ==
    [keys |-> ({"x", "logger"} \cup {"_logger_name", "_logger_folder", "_logger_config"})
              \ {"logger"},
     x |-> o.x,
     logger_name |-> o.logger.name,
     logger_folder |-> TStr(o.logger.folder),
     logger_config |-> TList(o.logger.handlers_config)]

\* lines 163-172: __setstate__ on a blank instance; the Logger is built with
\* the three values as its first three positional arguments.
SetStateOf(sd) ==
    LET lg == LoggerInit(sd.logger_name, sd.logger_folder, sd.logger_config,
                         DefaultConfig)
    IN  IF lg.err # ""
        THEN [status |-> lg.err, keys |-> {}, x |-> 0, logger |-> NoLogger]
        ELSE [status |-> "ok",
              keys |-> {"logger"} \cup (sd.keys \ {"_logger_name", "_logger_folder",
                                                   "_logger_config"}),
              x |-> sd.x, logger |-> lg]

GetState ==
    /\ statedict = NoState
    /\ statedict' = GetStateOf(obj)
    /\ UNCHANGED <<obj, restored, lastlog>>
    /\ UNCHANGED notLogger

SetState ==
    /\ statedict # NoState
    /\ restored = NotRestored
    /\ restored' = SetStateOf(statedict)
    /\ UNCHANGED <<obj, statedict, lastlog>>
    /\ UNCHANGED notLogger

WarningMsg == "Invalid 'level' argument passed to 'log'"

\* logging.Logger.log(level, msg): the call made, refused by the standard
\* library with a TypeError when level is not an int.
SuperLog(level, msg) ==
    [raised |-> level.t # "int", call |-> [level |-> level.n, msg |-> msg]]

\* line 102: self._levels.get(level, self.level)
\* (faulty variant: self._levels.get(level), without the default)
LevelOfNameNoDefault(logger, name) ==
    IF name \in DOMAIN LoggingLevels(logger.default)
    THEN TInt(LoggingLevels(logger.default)[name])
    ELSE TNone
LevelOfName(logger, name) ==
    IF name \in DOMAIN LoggingLevels(logger.default)
    THEN TInt(LoggingLevels(logger.default)[name])
    ELSE TInt(logger.level)

\* lines 96-110: Logger.log(level, msg): the calls of logging.Logger.log it
\* makes, in order, and whether it raises.
LoggerLog(logger, level, msg) ==
    LET warn == SuperLog(TInt(WARNING), WarningMsg)
        lvl == IF level.t = "str" THEN LevelOfName(logger, level.s)
               ELSE IF level.t # "int" THEN TInt(logger.level)
               ELSE level
        pre == IF level.t \notin {"str", "int"} THEN <<warn.call>> ELSE <<>>
        main == SuperLog(lvl, msg)
    IN  [level |-> level, msg |-> msg,
         calls |-> IF main.raised THEN pre ELSE Append(pre, main.call),
         raised |-> main.raised]

LevelArguments ==
    {TInt(0), TInt(10), TInt(WARNING)}
    \cup {TStr(n) : n \in {"info", "warn", "default", "bogus", "", "INFO"}}
    \cup {TNone, TFloat(20), TList(<<>>)}

\* lines 174-176 and 96-110: obj.log(msg, level), that is obj.logger.log(level, msg).
Log(level, msg) ==
    /\ lastlog' = LoggerLog(obj.logger, level, msg)
    /\ UNCHANGED <<obj, statedict, restored>>
    /\ UNCHANGED notLogger

NextLogger ==
    \/ GetState
    \/ SetState
    \/ \E level \in LevelArguments, msg \in {"m1", "m2"} : Log(level, msg)

\* C7: __getstate__ then __setstate__ succeeds and yields an object whose
\* non-logger attributes equal the original's and whose logger is rebuilt
\* with the original's name, folder and handlers configuration; the state
\* holds no 'logger' entry.
C7_PickleRoundTrip ==
    /\ statedict # NoState => "logger" \notin statedict.keys
    /\ restored # NotRestored =>
         /\ restored.status = "ok"
         /\ restored.x = obj.x
         /\ restored.keys = {"x", "logger"}
         /\ restored.logger.name = obj.logger.name
         /\ restored.logger.folder = obj.logger.folder
         /\ restored.logger.handlers_config = obj.logger.handlers_config

\* the part of C7 the code keeps: the state holds the attributes and the
\* logger's name, folder and configuration, and no 'logger' entry.
C7_StateHasNoLogger ==
    statedict # NoState =>
        /\ "logger" \notin statedict.keys
        /\ statedict.x = obj.x
        /\ statedict.logger_name = obj.logger.name
        /\ statedict.logger_folder.s = obj.logger.folder
        /\ statedict.logger_config.l = obj.logger.handlers_config

InvalidLevel(level) ==
    /\ level.t # "int"
    /\ ~(level.t = "str"
         /\ level.s \in {"debug", "info", "warning", "warn", "error", "fatal",
                         "critical", "default"})

\* C8 as written: for every level argument that is neither an int nor a
\* known level name, log does not fail, first logs a warning and then logs
\* the message at the logger's default level.
C8_InvalidLevelWarns ==
    (lastlog # NoLog /\ InvalidLevel(lastlog.level))
    => /\ ~lastlog.raised
       /\ lastlog.calls = <<[level |-> WARNING, msg |-> WarningMsg],
                            [level |-> obj.logger.level, msg |-> lastlog.msg]>>

\* C8 amended: log never fails on such an argument and logs the message at
\* the logger's default level; it first logs a warning when the argument is
\* of a type other than int and str, and logs no warning when the argument
\* is a string that is not a known level name.
C8_InvalidLevelDefaults ==
    (lastlog # NoLog /\ InvalidLevel(lastlog.level))
    => /\ ~lastlog.raised
       /\ lastlog.calls =
            IF lastlog.level.t = "str"
            THEN <<[level |-> obj.logger.level, msg |-> lastlog.msg]>>
            ELSE <<[level |-> WARNING, msg |-> WarningMsg],
                   [level |-> obj.logger.level, msg |-> lastlog.msg]>>

\* C8 witness: a string that is no level name was logged at the default
\* level without a warning.
C8_Witness ==
    /\ lastlog.level = TStr("bogus")
    /\ ~lastlog.raised
    /\ Len(lastlog.calls) = 1

\* C8 witness: a level of another type was logged after a warning.
C8_WitnessWarned ==
    /\ lastlog.level = TNone
    /\ Len(lastlog.calls) = 2

(***************************************************************************)
(* Specifications.                                                         *)
(***************************************************************************)
InitPool == CallPool /\ IdleOnce /\ IdleLazy /\ IdleSort /\ IdleLogger
SpecPool == InitPool /\ [][NextPool]_vars

InitOnce == IdlePool /\ IdleOnce /\ IdleLazy /\ IdleSort /\ IdleLogger
SpecOnce == InitOnce /\ [][NextOnce]_vars

InitLazy == IdlePool /\ IdleOnce /\ OwnersLazy /\ IdleSort /\ IdleLogger
SpecLazy == InitLazy /\ [][NextLazy]_vars

InitSort == IdlePool /\ IdleOnce /\ IdleLazy /\ CallSort /\ IdleLogger
SpecSort == InitSort /\ [][NextSort]_vars

InitLogger == IdlePool /\ IdleOnce /\ IdleLazy /\ IdleSort /\ NewLoggedObject
SpecLogger == InitLogger /\ [][NextLogger]_vars

Spec == SpecPool
====
